---- MODULE Spec2Model ----
(***************************************************************************)
(* rssant: the harbor (state) and worker (I/O) actors of the RSS ingestion *)
(* pipeline, rssant_harbor/actors/rss.py and rssant_worker/actors/rss.py.  *)
(*                                                                         *)
(* The relational store (rssant_api.models) and the HTML helpers           *)
(* (rssant_feedlib.processor) are not among the sources; they are modelled *)
(* from the design document and marked so in MODEL_MAP.json.               *)
(***************************************************************************)
EXTENDS Integers, Sequences, FiniteSets, TLC

\* ------------------------------------------------------------------ bounds
MaxTime == 3          \* the clock runs 1..MaxTime
MaxFeeds == 3         \* Feed ids handed out by the store's sequence
TicksPerMonth == 2    \* clock ticks per calendar month of the model

\* --------------------------------------------------------------- constants
NoId == 0             \* a null foreign key / a failed lookup
NoTime == 0           \* a null datetime
NoHash == <<>>        \* a null content_hash_base64
NoFeedDict == [null |-> TRUE]   \* feed = None in save_feed_creation_result

PENDING == "pending"
UPDATING == "updating"
READY == "ready"
ERROR == "error"
NOT_FOUND == "NOT_FOUND"

Urls == {"a.com/rss", "v2ex.com/rss"}
Users == {1, 2}
Procs == {"h1", "h2"}          \* harbor processes, one transaction each
BaseMonth == 600               \* month id of clock tick 0 (2020-01)
CHECK_FEED_SECONDS == 1        \* CONFIG.check_feed_minutes * 60, in clock ticks

\* compute_hash_base64: a digest of its inputs, not the inputs themselves
compute_hash_base64(x) == <<"sha1", x>>

\* id_of_month of the date of a clock tick
id_of_month(dt) == BaseMonth + (dt \div TicksPerMonth)

Max(a, b) == IF a >= b THEN a ELSE b

\* ------------------------------------------------------- story contents
\* A story's HTML, by what the processors measure of it: its length, the
\* length of its text, its anchor links, its bare urls, its <img> sources.
Html(len, textLen, links, urls, imgs) ==
    [len |-> len, text_len |-> textLen, links |-> links, urls |-> urls, imgs |-> imgs]
NoContent == Html(0, 0, 0, 0, <<>>)

\* An <img> source: a url (host, path), or the proxied form of one
Img(host, path) == [proxy |-> FALSE, host |-> host, path |-> path, base |-> ""]

\* str(yarl.URL(x)): the url normalised (the host in lower case)
LowerHost(h) == IF h = "X.QPIC.CN" THEN "x.qpic.cn" ELSE IF h = "IMG.ORG" THEN "img.org" ELSE h
yarl_str(u) == [u EXCEPT !.host = LowerHost(u.host)]

\* '/api/v1/image/{}'.format(encode_image_url(url, story_url))
proxy_url(u, story_url) == [proxy |-> TRUE, host |-> u.host, path |-> u.path, base |-> story_url]

SeqToSet(q) == {q[i] : i \in 1..Len(q)}

\* story_html_to_text(content) and shorten(text, width), a text by its length
story_html_to_text(content) == content.text_len
shorten(text, width) == IF text > width THEN width ELSE text

\* ------------------------------------------------------- worker payloads
\* worker _get_story_unique_id: entry.id, else entry.link
get_story_unique_id(entry) == IF entry.id # "" THEN entry.id ELSE entry.link

\* worker _get_dt_published: a future timestamp is rejected (default None)
get_dt_published(entry, t) ==
    IF entry.published # NoTime /\ entry.published > t THEN NoTime ELSE entry.published

\* worker _get_storys: one story per entry, in order
RECURSIVE get_storys(_, _)
get_storys(entries, t) ==
    IF entries = <<>> THEN <<>>
    ELSE LET e == Head(entries)
             summary == shorten(story_html_to_text(e.content), 300)
         IN
         <<[unique_id |-> get_story_unique_id(e),
            content |-> e.content,
            summary |-> summary,
            content_hash_base64 |-> compute_hash_base64(<<e.content, summary>>),
            link |-> e.link,
            dt_published |-> get_dt_published(e, t)]>>
         \o get_storys(Tail(entries), t)

\* response.content: the bytes of the fetched body
response_content(res) == <<res.title, res.entries>>

\* worker _parse_found: the canonical feed record of a fetched response
parse_found(res, t) ==
    [url |-> res.url,
     content_hash_base64 |-> compute_hash_base64(response_content(res)),
     title |-> res.title,
     storys |-> get_storys(res.entries, t)]

\* ------------------------------------------------------------- the store
NewFeedRow(url, t) ==
    [url |-> url, title |-> "", content_hash_base64 |-> NoHash,
     dt_updated |-> t, dt_checked |-> NoTime, dt_synced |-> NoTime,
     status |-> READY, total_storys |-> 0,
     monthly_story_count |-> [m \in {} |-> 0]]

\* monthly_story_count.get(year, month): 0 for a month never counted
msc_get(msc, m) == IF m \in DOMAIN msc THEN msc[m] ELSE 0
msc_put(msc, m, n) == [k \in DOMAIN msc \cup {m} |-> IF k = m THEN n ELSE msc[k]]

Put(f, k, v) == [x \in DOMAIN f \cup {k} |-> IF x = k THEN v ELSE f[x]]
Del(f, k) == [x \in DOMAIN f \ {k} |-> f[x]]

\* Feed.get_first_by_url: the Feed of lowest id with this url, or none
get_first_by_url(feeds, url) ==
    LET ids == {f \in DOMAIN feeds : feeds[f].url = url} IN
    IF ids = {} THEN NoId ELSE CHOOSE f \in ids : \A g \in ids : f <= g

\* the store's unique index on Feed.url, mutated: no index
UniqueUrlOK_none(feeds) == TRUE

\* the store's unique index on Feed.url
UniqueUrlOK(feeds) ==
    \A f, g \in DOMAIN feeds : feeds[f].url = feeds[g].url => f = g

\* the store's unique indexes on Story, mutated: none on (feed_id, unique_id)
UniqueStoryOK_idonly(storys) ==
    \A s, r \in storys : s.id = r.id => s = r

\* the store's unique indexes on Story: its id and (feed_id, unique_id)
UniqueStoryOK(storys) ==
    \A s, r \in storys :
        (s.id = r.id \/ (s.feed_id = r.feed_id /\ s.unique_id = r.unique_id)) => s = r

\* ------------------------------------------------------ bulk story save
\* the incoming stories keyed by unique_id: the last of each key, in order
DedupStorys(storys) ==
    LET keep == {i \in 1..Len(storys) :
                    \A j \in (i+1)..Len(storys) : storys[j].unique_id # storys[i].unique_id}
        RECURSIVE pick(_)
        pick(i) == IF i > Len(storys) THEN <<>>
                   ELSE (IF i \in keep THEN <<storys[i]>> ELSE <<>>) \o pick(i + 1)
    IN pick(1)

\* one incoming story upserted: acc = [db, modified, num_reallocate]
UpsertStory(acc, feed_id, s) ==
    LET d == acc.db
        feed == d.feeds[feed_id]
        old == {r \in d.storys : r.feed_id = feed_id /\ r.unique_id = s.unique_id}
        m == id_of_month(s.dt_published)
    IN
    IF old = {} THEN
        LET row == [id |-> <<feed_id, feed.total_storys>>, feed_id |-> feed_id,
                    offset |-> feed.total_storys, unique_id |-> s.unique_id,
                    content |-> s.content, summary |-> s.summary,
                    content_hash_base64 |-> s.content_hash_base64,
                    link |-> s.link, dt_published |-> s.dt_published]
            feed2 == [feed EXCEPT !.total_storys = @ + 1,
                        !.monthly_story_count = msc_put(@, m, msc_get(@, m) + 1)]
        IN [db |-> [d EXCEPT !.storys = @ \cup {row}, !.feeds = Put(@, feed_id, feed2)],
            modified |-> Append(acc.modified, row),
            num_reallocate |-> acc.num_reallocate]
    ELSE
        LET r == CHOOSE x \in old : TRUE IN
        IF r.content_hash_base64 = s.content_hash_base64 THEN acc
        ELSE
            LET row == [r EXCEPT !.content = s.content, !.summary = s.summary,
                            !.content_hash_base64 = s.content_hash_base64,
                            !.link = s.link, !.dt_published = s.dt_published]
                om == id_of_month(r.dt_published)
                moved == om # m
                msc1 == feed.monthly_story_count
                msc2 == IF moved
                        THEN LET dec == msc_put(msc1, om, msc_get(msc1, om) - 1)
                             IN msc_put(dec, m, msc_get(dec, m) + 1)
                        ELSE msc1
                feed2 == [feed EXCEPT !.monthly_story_count = msc2]
            IN [db |-> [d EXCEPT !.storys = (@ \ {r}) \cup {row},
                                 !.feeds = Put(@, feed_id, feed2)],
                modified |-> Append(acc.modified, row),
                num_reallocate |-> acc.num_reallocate + (IF moved THEN 1 ELSE 0)]

RECURSIVE UpsertAll(_, _, _)
UpsertAll(acc, feed_id, storys) ==
    IF storys = <<>> THEN acc
    ELSE UpsertAll(UpsertStory(acc, feed_id, Head(storys)), feed_id, Tail(storys))

\* Story.bulk_save_by_feed: (modified_storys, num_reallocate) and the store after
bulk_save_by_feed(d, feed_id, storys) ==
    UpsertAll([db |-> d, modified |-> <<>>, num_reallocate |-> 0],
              feed_id, DedupStorys(storys))

\* ------------------------------------------------------------ Feed.merge
\* target.merge(source): the source's Stories and UserFeeds are reassigned to
\* the target and the source is destroyed; ok is FALSE when a unique index of
\* the store rejects it (IntegrityError)
feed_merge(d, target, source) ==
    LET moved == {[s EXCEPT !.feed_id = target] : s \in {x \in d.storys : x.feed_id = source}}
        kept == {x \in d.storys : x.feed_id # source}
        storys2 == kept \cup moved
        ufMoved == {[uf EXCEPT !.feed_id = target] :
                        uf \in {x \in d.user_feeds : x.feed_id = source}}
        ufKept == {x \in d.user_feeds : x.feed_id # source}
    IN [ok |-> /\ target \in DOMAIN d.feeds
               /\ UniqueStoryOK(storys2)
               /\ Cardinality(storys2) = Cardinality(d.storys)
               /\ ufMoved \cap ufKept = {},
        db |-> [d EXCEPT !.storys = storys2,
                         !.user_feeds = ufKept \cup ufMoved,
                         !.feeds = Del(@, source)]]

\* ------------------------------------------------- freshness heuristics
\* is_productive_feed, mutated: freq_18m is the mean over all 18 months
is_productive_feed_mean_of_18(msc, dt) ==
    LET month_id == id_of_month(dt)
        year == 1970 + (month_id \div 12)
        count(i) == msc_get(msc, Max(0, month_id - i))
        RECURSIVE sum(_)
        sum(i) == IF i > 17 THEN 0 ELSE count(i) + sum(i + 1)
        max3 == Max(count(0), Max(count(1), count(2)))
    IN IF ~(1970 <= year /\ year <= 9999) THEN TRUE
       ELSE IF sum(0) <= 0 THEN TRUE
       ELSE max3 >= 30 \/ sum(0) >= 30 * 18

\* is_productive_feed(monthly_story_count, date)
is_productive_feed(msc, dt) ==
    LET month_id == id_of_month(dt)
        year == 1970 + (month_id \div 12)
        count(i) == msc_get(msc, Max(0, month_id - i))    \* count_18m, newest first
        RECURSIVE sum(_, _)
        sum(i, onlyNonZero) ==
            IF i > 17 THEN 0
            ELSE (IF onlyNonZero /\ count(i) <= 0 THEN 0 ELSE count(i)) + sum(i + 1, onlyNonZero)
        nonZero == Cardinality({i \in 0..17 : count(i) > 0})
        max3 == Max(count(0), Max(count(1), count(2)))
    IN IF ~(1970 <= year /\ year <= 9999) THEN TRUE
       ELSE IF sum(0, FALSE) <= 0 THEN TRUE
       ELSE max3 >= 30 \/ sum(0, TRUE) >= 30 * nonZero

\* is_fulltext_story(feed, story)
is_fulltext_story(feed, story) ==
    IF story.content.len = 0 THEN FALSE
    ELSE IF story.content.len >= 2000 THEN TRUE
    ELSE IF story.dt_published = NoTime THEN TRUE
    ELSE IF is_productive_feed(feed.monthly_story_count, story.dt_published) THEN TRUE
    ELSE IF story.content.links >= 2 THEN TRUE
    ELSE IF story.content.urls >= 3 THEN TRUE
    ELSE Len(story.content.imgs) >= 1

\* processor.is_v2ex, is_hacknews, is_github, is_pypi: the full-content hosts
FullContentUrls == {"v2ex.com/rss"}

\* _is_feed_need_fetch_storys(feed)
is_feed_need_fetch_storys(feed) == feed.url \notin FullContentUrls

\* StoryImageProcessor.parse: the <img> sources of a content, in order
parse_images(content) == content.imgs

\* _process_story_images(ctx, story, is_refresh): the messages it hopes
process_story_images(story, is_refresh) ==
    IF is_refresh \/ story_html_to_text(story.content) < 1000 THEN
        LET image_urls == {yarl_str(x) : x \in SeqToSet(parse_images(story.content))} IN
        IF image_urls # {}
        THEN <<[name |-> "worker_rss.detect_story_images", story_id |-> story.id,
                story_url |-> story.link, image_urls |-> image_urls]>>
        ELSE <<>>
    ELSE <<>>

\* the loop of do_update_feed after the commit: one decision per story
RECURSIVE emit_loop(_, _, _)
emit_loop(feed, storys, is_refresh) ==
    IF storys = <<>> THEN <<>>
    ELSE LET story == Head(storys)
             rest == emit_loop(feed, Tail(storys), is_refresh)
         IN IF story.link = "" THEN rest
            ELSE IF is_feed_need_fetch_storys(feed) /\ ~is_fulltext_story(feed, story)
            THEN <<[name |-> "worker_rss.fetch_story", url |-> story.link,
                    story_id |-> story.id]>> \o rest
            ELSE process_story_images(story, is_refresh) \o rest

\* do_update_feed after the commit, mutated: loops over every story of the payload
emit_for_storys_all(feed, storys, modified, is_refresh) ==
    emit_loop(feed, storys, is_refresh)

\* do_update_feed after the commit: loops over modified_storys
emit_for_storys(feed, storys, modified, is_refresh) ==
    emit_loop(feed, modified, is_refresh)

\* ------------------------------------------------- harbor transactions
\* '\n\n'.join(messages)
RECURSIVE join_messages(_)
join_messages(messages) ==
    IF messages = <<>> THEN <<>>
    ELSE IF Len(messages) = 1 THEN messages
    ELSE <<Head(messages), "\n\n">> \o join_messages(Tail(messages))

\* do_save_feed_creation_result when nothing was found, mutated: the
\* FeedCreation's feed_id is reset and no FeedUrlMap is recorded
save_not_found_unlinked(d, c, fc0) ==
    [ok |-> TRUE,
     db |-> [d EXCEPT !.creations =
                Put(@, c.feed_creation_id, [fc0 EXCEPT !.status = ERROR, !.feed_id = NoId])],
     maps |-> <<>>,
     msgs |-> <<>>]

\* do_save_feed_creation_result when nothing was found (feed is None): the
\* FeedCreation, with its message and dt_updated set, is saved as ERROR, one
\* FeedUrlMap to NOT_FOUND is saved, and the handler returns
save_not_found(d, c, fc0) ==
    [ok |-> TRUE,
     db |-> [d EXCEPT !.creations = Put(@, c.feed_creation_id, [fc0 EXCEPT !.status = ERROR]),
                      !.url_maps = @ \cup {[source |-> fc0.url, target |-> NOT_FOUND]}],
     maps |-> <<[source |-> fc0.url, target |-> NOT_FOUND]>>,
     msgs |-> <<>>]

\* do_save_feed_creation_result, from the rows it read to its commit.
\* maps: the FeedUrlMap rows it saved, in order.
\* c: feed_creation_id, messages, feed, feed_creation (the row read),
\*    found (Feed.get_first_by_url), t (timezone.now())
do_save_feed_creation_result(d, c) ==
    LET fc0 == [c.feed_creation EXCEPT !.message = join_messages(c.messages),
                                       !.dt_updated = c.t]
    IN
    IF c.feed = NoFeedDict THEN save_not_found(d, c, fc0)
    ELSE
        LET url == c.feed.url
            isNew == c.found = NoId
            fid == IF isNew THEN d.next_feed_id ELSE c.found
            d1 == IF isNew
                  THEN [d EXCEPT !.feeds = Put(@, fid, NewFeedRow(url, c.t)),
                                 !.next_feed_id = @ + 1]
                  ELSE d
            fc1 == [fc0 EXCEPT !.status = READY, !.feed_id = fid]
            maps == <<[source |-> fc1.url, target |-> url]>>
                    \o (IF url # fc1.url THEN <<[source |-> url, target |-> url]>> ELSE <<>>)
        IN [ok |-> UniqueUrlOK(d1.feeds),
            db |-> [d1 EXCEPT !.creations = Put(@, c.feed_creation_id, fc1),
                              !.user_feeds = @ \cup {[user_id |-> fc1.user_id, feed_id |-> fid]},
                              !.url_maps = @ \cup SeqToSet(maps)],
            maps |-> maps,
            msgs |-> <<[name |-> "harbor_rss.update_feed", feed_id |-> fid,
                        feed |-> c.feed]>>]

\* the rows of a feed that a payload's stories were saved to
RECURSIVE saved_rows(_, _, _)
saved_rows(d, feed_id, storys) ==
    IF storys = <<>> THEN <<>>
    ELSE LET rs == {r \in d.storys : r.feed_id = feed_id /\ r.unique_id = Head(storys).unique_id}
         IN (IF rs = {} THEN <<>> ELSE <<CHOOSE r \in rs : TRUE>>)
            \o saved_rows(d, feed_id, Tail(storys))

\* the fields do_update_feed assigns, mutated: dt_checked is left as it was
updated_feed_row_synced_only(row, fd, t) ==
    [row EXCEPT !.url = fd.url, !.dt_synced = t, !.status = READY]

\* the fields do_update_feed assigns before feed.save(): the payload's
\* non-empty fields, dt_updated if unset, dt_checked = dt_synced = now, READY
updated_feed_row(row, fd, t) ==
    [row EXCEPT
        !.url = fd.url,
        !.title = IF fd.title # "" THEN fd.title ELSE @,
        !.content_hash_base64 =
            IF fd.content_hash_base64 # NoHash THEN fd.content_hash_base64 ELSE @,
        !.dt_updated = IF @ = NoTime THEN t ELSE @,
        !.dt_checked = t,
        !.dt_synced = t,
        !.status = READY]

\* do_update_feed past the merge: the Feed's fields assigned and saved, the
\* stories' dates defaulted, the stories saved (modified: modified_storys),
\* and the messages for the modified stories
save_feed_and_storys(d, c) ==
    LET fd == c.feed
        d1 == [d EXCEPT !.feeds = Put(@, c.feed_id, updated_feed_row(c.row, fd, c.t))]
        storys == [i \in 1..Len(fd.storys) |->
                     [fd.storys[i] EXCEPT !.dt_published = IF @ = NoTime THEN c.t ELSE @]]
        r == bulk_save_by_feed(d1, c.feed_id, storys)
        feed == r.db.feeds[c.feed_id]
    IN [ok |-> UniqueUrlOK(d1.feeds) /\ UniqueStoryOK(r.db.storys),
        db |-> r.db,
        modified |-> r.modified,
        msgs |-> emit_for_storys(feed, saved_rows(r.db, c.feed_id, DedupStorys(storys)),
                                 r.modified, c.is_refresh)]

\* do_update_feed, mutated: it does not return after the merge but goes on to
\* assign the payload's fields, to the target
do_update_feed_merge_and_assign(d, c) ==
    IF c.target # NoId THEN
        LET m == feed_merge(d, c.target, c.feed_id)
        IN IF m.ok
           THEN [ok |-> TRUE,
                 db |-> [m.db EXCEPT !.feeds =
                            Put(@, c.target, updated_feed_row(@[c.target], c.feed, c.t))],
                 msgs |-> <<>>]
           ELSE [ok |-> FALSE, db |-> d, msgs |-> <<>>]
    ELSE save_feed_and_storys(d, c)

\* do_update_feed, from the rows it read to its commit and what it sends after.
\* c: feed_id, feed, is_refresh, row (Feed.get_by_pk), target
\*    (Feed.get_first_by_url when the url differs), t (timezone.now())
do_update_feed(d, c) ==
    IF c.target # NoId THEN
        LET m == feed_merge(d, c.target, c.feed_id)
        IN [ok |-> m.ok, db |-> m.db, msgs |-> <<>>]
    ELSE save_feed_and_storys(d, c)

\* what do_update_feed reads before it writes
read_for_update_feed(d, feed_id, fd, is_refresh, t) ==
    LET row == d.feeds[feed_id] IN
    [op |-> "update_feed", feed_id |-> feed_id, feed |-> fd, is_refresh |-> is_refresh,
     row |-> row,
     target |-> IF row.url # fd.url THEN get_first_by_url(d.feeds, fd.url) ELSE NoId,
     t |-> t]

\* what do_save_feed_creation_result reads before it writes
read_for_save_feed_creation_result(d, id, messages, fd, t) ==
    [op |-> "save_feed_creation_result", feed_creation_id |-> id, messages |-> messages,
     feed |-> fd, feed_creation |-> d.creations[id],
     found |-> IF fd = NoFeedDict THEN NoId ELSE get_first_by_url(d.feeds, fd.url),
     t |-> t]

\* ---------------------------------------------------------------- state
VARIABLES
    db,     \* the store: feeds, storys, user_feeds, creations, url_maps, next_feed_id
    now,    \* the clock (timezone.now(), time.time())
    txn,    \* per harbor process: the transaction it is in, with what it has read
    out,    \* the last handler to end: the messages it sent, whether it raised
    queue,  \* the messages in flight between worker and harbor, in no order
    hist,   \* what the workers fetched and the harbor applied, in order, and
            \* since when each FeedCreation has had its status
    probe   \* the detect_story_images handler in progress and its futures

vars == <<db, now, txn, out, queue, hist, probe>>
workerVars == <<queue, hist, probe>>

Idle == [op |-> "idle"]
NoProbe == [phase |-> "none"]
Sent(op, msgs) == [op |-> op, msgs |-> msgs, raised |-> FALSE]
Raised(op) == [op |-> op, msgs |-> <<>>, raised |-> TRUE]

NewCreation(user, url, t) ==
    [user_id |-> user, url |-> url, status |-> PENDING, message |-> <<>>,
     feed_id |-> NoId, dt_created |-> t, dt_updated |-> NoTime]

\* ------------------------------------------------------- fetched inputs
ContentImg == Html(200, 100, 0, 0, <<Img("X.QPIC.CN", "/1.jpg")>>)
ContentText == Html(200, 100, 0, 0, <<>>)

EntryX1 == [id |-> "x", link |-> "http://a.com/x", content |-> ContentImg, published |-> 1]
EntryX2 == [id |-> "x", link |-> "http://a.com/x", content |-> ContentText, published |-> NoTime]
EntryY == [id |-> "", link |-> "y", content |-> ContentText, published |-> 2]

Titles == {"t1", "t2"}
MessageLists == {<<"found">>}

\* what the feed servers may answer: few answers for the concurrent harbor,
\* more for a harbor that handles one message at a time
ResponsesFew == [url : Urls, title : {"t1"}, entries : {<<>>}]
ResponsesClock == [url : Urls, title : Titles, entries : {<<>>}]
ResponsesMany ==
    [url : Urls, title : {"t1"},
     entries : {<<>>, <<EntryX1>>, <<EntryX1, EntryX2>>, <<EntryY>>}]

\* the feed records a worker may have sent by now
Payloads(responses) == {parse_found(res, t) : res \in responses, t \in 1..now}

Init ==
    /\ db = [feeds |-> <<>>, storys |-> {}, user_feeds |-> {},
             creations |-> [i \in {1, 2} |->
                               NewCreation(i, IF i = 1 THEN "a.com/rss" ELSE "v2ex.com/rss", 1)],
             url_maps |-> {}, next_feed_id |-> 1]
    /\ now = 1
    /\ txn = [p \in Procs |-> Idle]
    /\ out = Sent("", <<>>)
    /\ queue = {}
    /\ hist = [nfetch |-> 0, found |-> {}, syncs |-> <<>>, updates |-> <<>>,
               since |-> [i \in {1, 2} |-> 1], naps |-> 0]
    /\ probe = NoProbe

Tick ==
    /\ now < MaxTime
    /\ now' = now + 1
    /\ UNCHANGED <<db, txn, out, workerVars>>

\* do_update_feed_creation_status: one UPDATE statement
UpdateFeedCreationStatus(id, status) ==
    /\ db' = [db EXCEPT !.creations =
                [i \in DOMAIN @ |-> IF i = id THEN [@[i] EXCEPT !.status = status] ELSE @[i]]]
    /\ out' = Sent("update_feed_creation_status", <<>>)
    /\ UNCHANGED <<now, txn>>

\* do_save_feed_creation_result up to its first write, early returns included
SaveFeedCreationResultBegin(p, id, messages, fd) ==
    /\ txn[p] = Idle
    /\ IF id \notin DOMAIN db.creations \/ db.creations[id].status = READY
       THEN /\ out' = Sent("save_feed_creation_result", <<>>)
            /\ UNCHANGED <<db, now, txn>>
       ELSE /\ db.next_feed_id
                 + Cardinality({q \in Procs : txn[q].op = "save_feed_creation_result"})
                 <= MaxFeeds
            /\ txn' = [txn EXCEPT ![p] =
                          read_for_save_feed_creation_result(db, id, messages, fd, now)]
            /\ UNCHANGED <<db, now, out>>
    /\ UNCHANGED workerVars

\* do_update_feed up to its first write; Feed.get_by_pk raises DoesNotExist
UpdateFeedBegin(p, feed_id, fd, is_refresh) ==
    /\ txn[p] = Idle
    /\ IF feed_id \notin DOMAIN db.feeds
       THEN /\ out' = Raised("update_feed")
            /\ UNCHANGED <<db, now, txn>>
       ELSE /\ txn' = [txn EXCEPT ![p] = read_for_update_feed(db, feed_id, fd, is_refresh, now)]
            /\ UNCHANGED <<db, now, out>>
    /\ UNCHANGED workerVars

\* the outcome of the transaction a process is in
TxnResult(d, c) ==
    IF c.op = "update_feed" THEN do_update_feed(d, c) ELSE do_save_feed_creation_result(d, c)

\* the end of a handler: its writes committed and its messages sent after the
\* commit, or its transaction rolled back by an IntegrityError it raises
Finish(op, r) ==
    IF r.ok THEN db' = r.db /\ out' = Sent(op, r.msgs)
    ELSE db' = db /\ out' = Raised(op)

\* the writes of the transaction a process is in, and its end
Commit(p) ==
    /\ txn[p] # Idle
    /\ Finish(txn[p].op, TxnResult(db, txn[p]))
    /\ txn' = [txn EXCEPT ![p] = Idle]
    /\ UNCHANGED <<now, workerVars>>

\* the end of a handler, with the message it handled
FinishWith(op, r, args) ==
    /\ db' = (IF r.ok THEN r.db ELSE db)
    /\ out' = [op |-> op, msgs |-> r.msgs, raised |-> ~r.ok, args |-> args]

\* do_save_feed_creation_result, mutated: a READY FeedCreation is saved again
save_feed_creation_result_any_status(d, id, messages, fd, t) ==
    IF id \notin DOMAIN d.creations
    THEN [ok |-> TRUE, db |-> d, maps |-> <<>>, msgs |-> <<>>]
    ELSE do_save_feed_creation_result(
             d, read_for_save_feed_creation_result(d, id, messages, fd, t))

\* do_save_feed_creation_result from its first line to its last: it returns
\* early when the FeedCreation is gone or READY
save_feed_creation_result(d, id, messages, fd, t) ==
    IF id \notin DOMAIN d.creations \/ d.creations[id].status = READY
    THEN [ok |-> TRUE, db |-> d, maps |-> <<>>, msgs |-> <<>>]
    ELSE do_save_feed_creation_result(
             d, read_for_save_feed_creation_result(d, id, messages, fd, t))

\* do_save_feed_creation_result handled with no other handler running
HandleSaveFeedCreationResult(id, messages, fd) ==
    /\ \A p \in Procs : txn[p] = Idle
    /\ db.next_feed_id <= MaxFeeds
    /\ FinishWith("save_feed_creation_result",
                  save_feed_creation_result(db, id, messages, fd, now),
                  [feed_creation_id |-> id, found |-> fd # NoFeedDict])
    /\ UNCHANGED <<now, txn>>

\* do_update_feed from its first line to its last: Feed.get_by_pk raises
\* DoesNotExist when the Feed is gone, and nothing catches it
update_feed(d, feed_id, fd, is_refresh, t) ==
    IF feed_id \notin DOMAIN d.feeds THEN [ok |-> FALSE, db |-> d, msgs |-> <<>>]
    ELSE do_update_feed(d, read_for_update_feed(d, feed_id, fd, is_refresh, t))

\* do_update_feed handled from its first line to its last with no other handler
\* running
HandleUpdateFeed(feed_id, fd, is_refresh) ==
    /\ \A p \in Procs : txn[p] = Idle
    /\ Finish("update_feed", update_feed(db, feed_id, fd, is_refresh, now))
    /\ UNCHANGED <<now, txn>>

FeedIdsEver == 1..(db.next_feed_id - 1)

\* ids in increasing order
RECURSIVE SortedIds(_)
SortedIds(ids) ==
    IF ids = {} THEN <<>>
    ELSE LET m == CHOOSE i \in ids : \A j \in ids : i <= j
         IN <<m>> \o SortedIds(ids \ {m})

\* Feed.take_outdated_feeds(outdate_seconds): the Feeds never checked or last
\* checked more than outdate_seconds ago, marked checked now
take_outdated_feeds(d, outdate_seconds, t) ==
    LET ids == {f \in DOMAIN d.feeds :
                   d.feeds[f].dt_checked = NoTime \/ d.feeds[f].dt_checked < t - outdate_seconds}
    IN [ids |-> SortedIds(ids),
        db |-> [d EXCEPT !.feeds = [f \in DOMAIN @ |->
                    IF f \in ids THEN [@[f] EXCEPT !.dt_checked = t] ELSE @[f]]]]

\* do_check_feed, with rand_sec = random.random() * CHECK_FEED_SECONDS / 10
do_check_feed(d, rand_sec, t) ==
    LET outdate_seconds == CHECK_FEED_SECONDS + rand_sec
        taken == take_outdated_feeds(d, outdate_seconds, t)
        expire_at == t + outdate_seconds
    IN [db |-> taken.db,
        msgs |-> [i \in 1..Len(taken.ids) |->
                    [name |-> "worker_rss.sync_feed", feed_id |-> taken.ids[i],
                     url |-> d.feeds[taken.ids[i]].url, expire_at |-> expire_at]]]

\* the values random.random() * CHECK_FEED_SECONDS / 10 takes, in clock ticks
RandSecs == 0..((CHECK_FEED_SECONDS - 1) \div 10)

\* do_check_feed handled with no other handler running
HandleCheckFeed ==
    /\ \A p \in Procs : txn[p] = Idle
    /\ \E rand_sec \in RandSecs :
          LET r == do_check_feed(db, rand_sec, now) IN
          /\ db' = r.db
          /\ out' = Sent("check_feed", r.msgs)
    /\ UNCHANGED <<now, txn>>

\* save_feed_creation_result and update_feed run by several harbor processes,
\* each handler in its own transaction
Next ==
    \/ \E p \in Procs, id \in 1..3, ms \in MessageLists, fd \in Payloads(ResponsesFew) :
          SaveFeedCreationResultBegin(p, id, ms, fd)
    \/ \E p \in Procs, f \in FeedIdsEver, fd \in Payloads(ResponsesFew) :
          UpdateFeedBegin(p, f, fd, FALSE)
    \/ \E p \in Procs : Commit(p)
Spec == Init /\ [][Next]_vars

\* a harbor that handles one message at a time
NextSerial ==
    \/ \E id \in 1..3, ms \in MessageLists, fd \in Payloads(ResponsesMany) :
          HandleSaveFeedCreationResult(id, ms, fd) /\ UNCHANGED workerVars
    \/ \E f \in FeedIdsEver, fd \in Payloads(ResponsesMany), r \in BOOLEAN :
          HandleUpdateFeed(f, fd, r) /\ UNCHANGED workerVars
SpecSerial == Init /\ [][NextSerial]_vars

\* a harbor that handles one message at a time, under a running clock and the
\* scheduler's tick
NextClock ==
    \/ Tick
    \/ HandleCheckFeed /\ UNCHANGED workerVars
    \/ \E id \in 1..3, ms \in MessageLists, fd \in Payloads(ResponsesClock) :
          HandleSaveFeedCreationResult(id, ms, fd) /\ UNCHANGED workerVars
    \/ \E f \in FeedIdsEver, fd \in Payloads(ResponsesClock) :
          HandleUpdateFeed(f, fd, FALSE) /\ UNCHANGED workerVars
SpecClock == Init /\ [][NextClock]_vars

\* --------------------------------------------------- the sync pipeline
MaxFetch == 3

\* a message in flight with the number of the fetch its content came from
\* (0 when it carries no fetched content)
Flying(m, fetch_no) == [msg |-> m, fetch_no |-> fetch_no]

RECURSIVE FlyingAll(_, _)
FlyingAll(msgs, fetch_no) ==
    IF msgs = <<>> THEN {} ELSE {Flying(Head(msgs), fetch_no)} \cup FlyingAll(Tail(msgs), fetch_no)

\* an optional message field: the schema's default when the sender left it out
Field(m, name, default) == IF name \in DOMAIN m THEN m[name] ELSE default

\* what a feed server answers for a url: a body, a body that does not parse,
\* or an error
NoResponse == [null |-> TRUE]
Bodies(url) == {[url |-> url, title |-> "t1", entries |-> <<EntryX1>>],
                [url |-> url, title |-> "t2", entries |-> <<EntryX2>>]}
Answers(url) ==
    {[status_code |-> 200, response |-> b, bozo |-> FALSE] : b \in Bodies(url)}
    \cup {[status_code |-> 200, response |-> [url |-> url, title |-> "", entries |-> <<>>],
           bozo |-> TRUE],
          [status_code |-> 500, response |-> NoResponse, bozo |-> FALSE]}

\* do_find_feed: the messages it sends for what FeedFinder found
do_find_feed(feed_creation_id, found, t) ==
    <<[name |-> "harbor_rss.update_feed_creation_status",
       feed_creation_id |-> feed_creation_id, status |-> UPDATING],
      [name |-> "harbor_rss.save_feed_creation_result",
       feed_creation_id |-> feed_creation_id, messages |-> <<"found">>,
       feed |-> IF found = NoResponse THEN NoFeedDict ELSE parse_found(found, t)]>>

\* do_sync_feed: the messages it sends for what FeedReader read
do_sync_feed(m, answer, t) ==
    LET content_hash_base64 == Field(m, "content_hash_base64", NoHash) IN
    IF answer.status_code # 200 \/ answer.response = NoResponse THEN <<>>
    ELSE IF compute_hash_base64(response_content(answer.response)) = content_hash_base64
    THEN <<>>
    ELSE IF answer.bozo THEN <<>>
    ELSE <<[name |-> "harbor_rss.update_feed", feed_id |-> m.feed_id,
            feed |-> parse_found(answer.response, t)]>>

Named(name) == {f \in queue : f.msg.name = name}

\* a worker handles find_feed for a FeedCreation the API has added
FindFeed(id) ==
    /\ id \in DOMAIN db.creations /\ id \notin hist.found
    /\ hist.nfetch < MaxFetch
    /\ \E a \in Answers(db.creations[id].url) :
          /\ ~a.bozo
          /\ LET n == hist.nfetch + 1
                 msgs == do_find_feed(id, a.response, now)
             IN /\ queue' = queue \cup {Flying(msgs[1], 0), Flying(msgs[2], n)}
                /\ hist' = [hist EXCEPT !.nfetch = n, !.found = @ \cup {id}]
                /\ out' = Sent("find_feed", msgs)
    /\ UNCHANGED <<db, now, txn, probe>>

\* a worker handles a sync_feed message that has not expired
SyncFeed(f) ==
    /\ f \in Named("worker_rss.sync_feed")
    /\ now <= f.msg.expire_at
    /\ hist.nfetch < MaxFetch
    /\ \E a \in Answers(f.msg.url) :
          LET n == hist.nfetch + 1
              msgs == do_sync_feed(f.msg, a, now)
              stored == IF f.msg.feed_id \in DOMAIN db.feeds
                        THEN db.feeds[f.msg.feed_id].content_hash_base64 ELSE NoHash
          IN /\ queue' = (queue \ {f}) \cup FlyingAll(msgs, n)
             /\ hist' = [hist EXCEPT !.nfetch = n,
                            !.syncs = Append(@, [feed_id |-> f.msg.feed_id, answer |-> a,
                                                 stored |-> stored, fetch_no |-> n,
                                                 emitted |-> Len(msgs)])]
             /\ out' = Sent("sync_feed", msgs)
    /\ UNCHANGED <<db, now, txn, probe>>

\* a message is past its expire_at at time t
is_expired(m, t) == "expire_at" \in DOMAIN m /\ t > m.expire_at

\* the substrate drops a message past its expire_at
Expire(f) ==
    /\ f \in queue
    /\ is_expired(f.msg, now)
    /\ queue' = queue \ {f}
    /\ UNCHANGED <<db, now, txn, out, hist, probe>>

\* the scheduler's check_feed; its sync_feed messages take flight
RunCheckFeed ==
    /\ HandleCheckFeed
    /\ queue' = queue \cup FlyingAll(out'.msgs, 0)
    /\ UNCHANGED <<hist, probe>>

DeliverUpdateFeedCreationStatus(f) ==
    /\ f \in Named("harbor_rss.update_feed_creation_status")
    /\ UpdateFeedCreationStatus(f.msg.feed_creation_id, f.msg.status)
    /\ queue' = queue \ {f}
    /\ UNCHANGED <<hist, probe>>

\* the update_feed that a successful save hopes for carries the save's content
DeliverSaveFeedCreationResult(f) ==
    /\ f \in Named("harbor_rss.save_feed_creation_result")
    /\ HandleSaveFeedCreationResult(f.msg.feed_creation_id, f.msg.messages, f.msg.feed)
    /\ queue' = (queue \ {f}) \cup FlyingAll(out'.msgs, f.fetch_no)
    /\ UNCHANGED <<hist, probe>>

\* the messages update_feed sends to the workers are not followed here
DeliverUpdateFeed(f) ==
    /\ f \in Named("harbor_rss.update_feed")
    /\ HandleUpdateFeed(f.msg.feed_id, f.msg.feed, Field(f.msg, "is_refresh", FALSE))
    /\ queue' = queue \ {f}
    /\ hist' = IF out'.raised THEN hist
               ELSE [hist EXCEPT !.updates =
                        Append(@, [feed_id |-> f.msg.feed_id, fetch_no |-> f.fetch_no,
                                   feed |-> f.msg.feed])]
    /\ UNCHANGED probe

\* workers and harbor joined by messages that arrive in any order, for the
\* first FeedCreation
NextSync ==
    \/ Tick
    \/ RunCheckFeed
    \/ FindFeed(1)
    \/ \E f \in queue : SyncFeed(f)
    \/ \E f \in queue : Expire(f)
    \/ \E f \in queue : DeliverUpdateFeedCreationStatus(f)
    \/ \E f \in queue : DeliverSaveFeedCreationResult(f)
    \/ \E f \in queue : DeliverUpdateFeed(f)
SpecSync == Init /\ [][NextSync]_vars


\* ------------------------------------------------------ story images
\* FeedResponseStatus.REFERER_DENY, REFERER_NOT_ALLOWED: synthetic statuses
REFERER_DENY == -411
REFERER_NOT_ALLOWED == -412
IMAGE_REFERER_DENY_STATUS == {400, 401, 403, 404, REFERER_DENY, REFERER_NOT_ALLOWED}

\* is_referer_deny_url = compile_url_blacklist(REFERER_DENY_LIST): the hosts
\* in use that end in qpic.cn, qlogo.cn or qq.com
RefererDenyHosts == {"x.qpic.cn", "a.qlogo.cn", "qq.com"}
is_referer_deny_url(u) == LowerHost(u.host) \in RefererDenyHosts

\* the image_replaces dict of do_update_story_images
image_replaces(images, story_url) ==
    LET denied == {images[i].url : i \in {k \in 1..Len(images) :
                                             images[k].status \in IMAGE_REFERER_DENY_STATUS}}
    IN [u \in denied |-> proxy_url(u, story_url)]

\* StoryImageProcessor.process: each <img> source that has a replacement is
\* replaced by it
process_images(content, replaces) ==
    [content EXCEPT !.imgs = [i \in DOMAIN @ |->
        IF yarl_str(@[i]) \in DOMAIN replaces THEN replaces[yarl_str(@[i])] ELSE @[i]]]

StoryById(d, story_id) == {s \in d.storys : s.id = story_id}

\* do_update_story; Story.objects.get raises DoesNotExist
do_update_story(d, story_id, content, summary, url) ==
    IF StoryById(d, story_id) = {} THEN [ok |-> FALSE, db |-> d, msgs |-> <<>>]
    ELSE LET story == CHOOSE s \in StoryById(d, story_id) : TRUE
             saved == [story EXCEPT !.link = url, !.content = content, !.summary = summary]
         IN [ok |-> TRUE, db |-> [d EXCEPT !.storys = (@ \ {story}) \cup {saved}],
             msgs |-> <<>>]

\* do_update_story_images; Story.objects.get raises DoesNotExist
do_update_story_images(d, story_id, story_url, images) ==
    IF StoryById(d, story_id) = {} THEN [ok |-> FALSE, db |-> d, msgs |-> <<>>]
    ELSE LET story == CHOOSE s \in StoryById(d, story_id) : TRUE
             content == process_images(story.content, image_replaces(images, story_url))
             saved == [story EXCEPT !.content = content]
         IN [ok |-> TRUE, db |-> [d EXCEPT !.storys = (@ \ {story}) \cup {saved}],
             msgs |-> <<>>]

HandleUpdateStory(story_id, content, url) ==
    /\ \A p \in Procs : txn[p] = Idle
    /\ LET summary == shorten(story_html_to_text(content), 300) IN
       FinishWith("update_story", do_update_story(db, story_id, content, summary, url),
                  [story_id |-> story_id, content |-> content, summary |-> summary,
                   url |-> url])
    /\ UNCHANGED <<now, txn, workerVars>>

HandleUpdateStoryImages(story_id, story_url, images) ==
    /\ \A p \in Procs : txn[p] = Idle
    /\ FinishWith("update_story_images",
                  do_update_story_images(db, story_id, story_url, images),
                  [story_id |-> story_id, story_url |-> story_url, images |-> images])
    /\ UNCHANGED <<now, txn, workerVars>>

\* the stories a message may name: those saved, and one that is not
StoryIds == {s.id : s \in db.storys} \cup {<<0, 0>>}

ContentTwoImgs == Html(200, 100, 0, 0, <<Img("x.qpic.cn", "/1.jpg"), Img("img.org", "/2.png")>>)
ImageContents == {ContentImg, ContentText, ContentTwoImgs}
ImageUrls == {Img("x.qpic.cn", "/1.jpg"), Img("img.org", "/2.png")}
ImageStatuses == {200, 403, REFERER_DENY}
ImageResults == [url : ImageUrls, status : ImageStatuses]
\* the images lists: no entry, one, or one per url
ImageLists ==
    {<<>>} \cup {<<r>> : r \in ImageResults}
    \cup {<<r, q>> : r \in {x \in ImageResults : x.url.host = "x.qpic.cn"},
                     q \in {x \in ImageResults : x.url.host = "img.org"}}
ResponsesImages == [url : {"a.com/rss"}, title : {"t1"}, entries : {<<EntryX1>>, <<EntryX2>>}]

\* a harbor that handles one message at a time, the story messages included
NextImages ==
    \/ \E fd \in Payloads(ResponsesImages) :
          HandleSaveFeedCreationResult(1, <<"found">>, fd) /\ UNCHANGED workerVars
    \/ \E f \in FeedIdsEver, fd \in Payloads(ResponsesImages) :
          HandleUpdateFeed(f, fd, FALSE) /\ UNCHANGED workerVars
    \/ \E id \in StoryIds, content \in ImageContents :
          HandleUpdateStory(id, content, "http://a.com/x")
    \/ \E id \in StoryIds, images \in ImageLists :
          HandleUpdateStoryImages(id, "http://a.com/x", images)
SpecImages == Init /\ [][NextImages]_vars

\* ------------------------------------------------ detect_story_images
\* a future of _read(url): pending, done with a result, or done with the
\* TimeoutError that reader.read raised
Pending == [state |-> "pending", status |-> 0]
Done(status) == [state |-> "done", status |-> status]
TimedOut == [state |-> "raised", status |-> 0]

\* the statuses reader.read returns
ProbeStatuses == {200, 404}

\* the image_urls lists a message may carry (T.list(T.url).unique)
ProbeUrl1 == Img("x.qpic.cn", "/1.jpg")
ProbeUrl2 == Img("img.org", "/2.png")
ProbeUrl3 == Img("img.org", "/3.png")
ImageUrlLists == {<<>>, <<ProbeUrl1>>, <<ProbeUrl2>>, <<ProbeUrl1, ProbeUrl2>>,
                  <<ProbeUrl2, ProbeUrl3>>, <<ProbeUrl1, ProbeUrl2, ProbeUrl3>>}

\* do_detect_story_images up to `await asyncio.gather(*futs)`: one future per url
DetectStoryImagesBegin(story_id, story_url, image_urls) ==
    /\ probe.phase # "gather"
    /\ probe' = [phase |-> "gather", story_id |-> story_id, story_url |-> story_url,
                 image_urls |-> image_urls,
                 futs |-> [i \in 1..Len(image_urls) |-> Pending]]
    /\ UNCHANGED <<db, now, txn, out, queue, hist>>

\* _read(url) returns: REFERER_DENY with no request for a referer-deny url,
\* else the status reader.read returned
ProbeReturn(i, status) ==
    /\ probe.phase = "gather"
    /\ i \in DOMAIN probe.futs /\ probe.futs[i] = Pending
    /\ IF is_referer_deny_url(probe.image_urls[i])
       THEN status = REFERER_DENY
       ELSE status \in ProbeStatuses
    /\ probe' = [probe EXCEPT !.futs[i] = Done(status)]
    /\ UNCHANGED <<db, now, txn, out, queue, hist>>

\* reader.read raises TimeoutError inside _read(url)
ProbeTimeout(i) ==
    /\ probe.phase = "gather"
    /\ i \in DOMAIN probe.futs /\ probe.futs[i] = Pending
    /\ ~is_referer_deny_url(probe.image_urls[i])
    /\ probe' = [probe EXCEPT !.futs[i] = TimedOut]
    /\ UNCHANGED <<db, now, txn, out, queue, hist>>

\* fut.result() of each future that is done: a result, or the exception raised
\* again
FutureResults(p) ==
    LET done == {i \in DOMAIN p.futs : p.futs[i].state # "pending"}
        RECURSIVE collect(_)
        collect(i) ==
            IF i > Len(p.futs) THEN <<>>
            ELSE (IF i \in done
                  THEN <<[url |-> p.image_urls[i], status |-> p.futs[i].status]>>
                  ELSE <<>>) \o collect(i + 1)
    IN [raises |-> \E i \in done : p.futs[i].state = "raised",
        results |-> collect(1)]

\* do_detect_story_images from the end of `await asyncio.gather(*futs)`: gather
\* returns every result, or raises the first TimeoutError and the except
\* branch reads the futures that are done
do_detect_story_images(p) ==
    LET r == FutureResults(p) IN
    IF r.raises THEN [ok |-> FALSE, msgs |-> <<>>]
    ELSE [ok |-> TRUE,
          msgs |-> <<[name |-> "harbor_rss.update_story_images", story_id |-> p.story_id,
                      story_url |-> p.story_url, images |-> r.results]>>]

GatherEnd ==
    /\ probe.phase = "gather"
    /\ \/ \A i \in DOMAIN probe.futs : probe.futs[i].state = "done"
       \/ \E i \in DOMAIN probe.futs : probe.futs[i].state = "raised"
    /\ LET r == do_detect_story_images(probe) IN
       /\ out' = (IF r.ok THEN Sent("detect_story_images", r.msgs)
                  ELSE Raised("detect_story_images"))
    /\ probe' = [probe EXCEPT !.phase = "ended"]
    /\ UNCHANGED <<db, now, txn, queue, hist>>

\* a worker probing the images of one story at a time
NextProbe ==
    \/ \E images \in ImageUrlLists : DetectStoryImagesBegin(<<1, 0>>, "http://a.com/x", images)
    \/ \E i \in 1..3, status \in ProbeStatuses \cup {REFERER_DENY} : ProbeReturn(i, status)
    \/ \E i \in 1..3 : ProbeTimeout(i)
    \/ GatherEnd
SpecProbe == Init /\ [][NextProbe]_vars

\* ------------------------------------------------ the creation janitor
\* the survival_seconds of do_clean_feed_creation and the expire_at of
\* _retry_feed_creations, in clock ticks of 30 minutes
DELETE_SURVIVAL == 48          \* 24 * 60 * 60
UPDATING_SURVIVAL == 1         \* 30 * 60
PENDING_SURVIVAL == 2          \* 60 * 60
FIND_EXPIRE == 2               \* 60 * 60
MaxNaps == 2                   \* the janitor's clock moves at most MaxNaps times

\* FeedCreation.delete_by_status(survival_seconds): the terminal rows created
\* more than survival_seconds ago are deleted
delete_by_status(d, survival_seconds, t) ==
    LET old == {i \in DOMAIN d.creations :
                   /\ d.creations[i].status \in {READY, ERROR}
                   /\ d.creations[i].dt_created < t - survival_seconds}
    IN [d EXCEPT !.creations = [i \in DOMAIN @ \ old |-> @[i]]]

\* FeedCreation.query_id_urls_by_status(status, survival_seconds): (id, url) of
\* the rows of that status created more than survival_seconds ago
query_id_urls_by_status(d, status, survival_seconds, t) ==
    LET ids == SortedIds({i \in DOMAIN d.creations :
                             /\ d.creations[i].status = status
                             /\ d.creations[i].dt_created < t - survival_seconds})
    IN [k \in 1..Len(ids) |-> <<ids[k], d.creations[ids[k]].url>>]

\* FeedCreation.bulk_set_pending(feed_creation_ids)
bulk_set_pending(d, ids) ==
    [d EXCEPT !.creations = [i \in DOMAIN @ |->
        IF i \in ids THEN [@[i] EXCEPT !.status = PENDING] ELSE @[i]]]

find_feed_messages(feed_creation_id_urls, expire_at) ==
    [k \in 1..Len(feed_creation_id_urls) |->
        [name |-> "worker_rss.find_feed", feed_creation_id |-> feed_creation_id_urls[k][1],
         url |-> feed_creation_id_urls[k][2], expire_at |-> expire_at]]

\* _retry_feed_creations: the rows set PENDING and one find_feed hoped for each
retry_feed_creations(d, feed_creation_id_urls, t) ==
    LET feed_creation_ids == {feed_creation_id_urls[k][1] : k \in DOMAIN feed_creation_id_urls}
    IN [db |-> bulk_set_pending(d, feed_creation_ids),
        msgs |-> find_feed_messages(feed_creation_id_urls, t + FIND_EXPIRE)]

\* do_clean_feed_creation: delete, retry the UPDATING, then retry the PENDING
do_clean_feed_creation(d, t) ==
    LET d1 == delete_by_status(d, DELETE_SURVIVAL, t)
        r2 == retry_feed_creations(
                  d1, query_id_urls_by_status(d1, UPDATING, UPDATING_SURVIVAL, t), t)
        r3 == retry_feed_creations(
                  r2.db, query_id_urls_by_status(r2.db, PENDING, PENDING_SURVIVAL, t), t)
    IN [db |-> r3.db, msgs |-> r2.msgs \o r3.msgs,
        num_deleted |-> Cardinality(DOMAIN d.creations \ DOMAIN d1.creations),
        num_retry_updating |-> Len(r2.msgs),
        num_retry_pending |-> Len(r3.msgs)]

\* the FeedCreations a find_feed message names
RetriedIds(msgs) == {msgs[k].feed_creation_id : k \in DOMAIN msgs}

\* do_clean_feed_creation handled with no other handler running
HandleCleanFeedCreation ==
    /\ \A p \in Procs : txn[p] = Idle
    /\ LET r == do_clean_feed_creation(db, now) IN
       /\ db' = r.db
       /\ out' = [op |-> "clean_feed_creation", msgs |-> r.msgs, raised |-> FALSE,
                  args |-> [before |-> db.creations, since |-> hist.since, t |-> now]]
       /\ hist' = [hist EXCEPT !.since = [i \in DOMAIN @ |->
                      IF i \in RetriedIds(r.msgs) THEN now ELSE @[i]]]
    /\ UNCHANGED <<now, txn, queue, probe>>

\* time passes: ten minutes are not a tick, so the clock moves by 30 minutes,
\* an hour or a day
Naps == {1, 2, DELETE_SURVIVAL}
Sleep(d) ==
    /\ hist.naps < MaxNaps
    /\ now' = now + d
    /\ hist' = [hist EXCEPT !.naps = @ + 1]
    /\ UNCHANGED <<db, txn, out, queue, probe>>

\* a worker has taken the find_feed of a FeedCreation: its status message
TakeFindFeed(id) ==
    /\ UpdateFeedCreationStatus(id, UPDATING)
    /\ hist' = [hist EXCEPT !.since[id] = now]
    /\ UNCHANGED <<queue, probe>>

\* the worker's find_feed has ended: its result is saved
SaveFound(id, fd) ==
    /\ HandleSaveFeedCreationResult(id, <<"found">>, fd)
    /\ UNCHANGED workerVars

\* the janitor's tick among the creation handlers
NextJanitor ==
    \/ \E d \in Naps : Sleep(d)
    \/ \E id \in 1..2 : TakeFindFeed(id)
    \/ \E id \in DOMAIN db.creations, fd \in Payloads(ResponsesFew) \cup {NoFeedDict} :
          (fd # NoFeedDict => fd.url = db.creations[id].url) /\ SaveFound(id, fd)
    \/ HandleCleanFeedCreation
SpecJanitor == Init /\ [][NextJanitor]_vars

\* ------------------------------------------------------------ properties

C3_ReadyHasFeed ==
    \A c \in DOMAIN db.creations :
        db.creations[c].status = READY => db.creations[c].feed_id \in DOMAIN db.feeds

\* C4: for every Feed dt_checked >= dt_synced, and from one state to the next
\* neither dt_checked nor dt_synced of a Feed decreases.
C4_CheckedSyncedMonotone ==
    /\ [](\A f \in DOMAIN db.feeds : db.feeds[f].dt_checked >= db.feeds[f].dt_synced)
    /\ [][\A f \in DOMAIN db.feeds \cap DOMAIN db'.feeds :
              /\ db'.feeds[f].dt_checked >= db.feeds[f].dt_checked
              /\ db'.feeds[f].dt_synced >= db.feeds[f].dt_synced]_vars

\* C4's case: a Feed synced by an update_feed and checked again at a later time,
\* beside a Feed that a later update_feed has synced.
C4_Witness ==
    /\ \E f \in DOMAIN db.feeds :
          db.feeds[f].dt_synced # NoTime /\ db.feeds[f].dt_checked > db.feeds[f].dt_synced
    /\ out.op = "update_feed"
    /\ ~out.raised

\* update_feed handled to its end by a harbor with nothing else in flight:
\* the store after it and the messages it sent
handle_update_feed(d, feed_id, fd, is_refresh, t) ==
    IF feed_id \notin DOMAIN d.feeds THEN [db |-> d, msgs |-> <<>>]
    ELSE LET r == do_update_feed(d, read_for_update_feed(d, feed_id, fd, is_refresh, t))
         IN IF r.ok THEN [db |-> r.db, msgs |-> r.msgs] ELSE [db |-> d, msgs |-> <<>>]

\* C5: with the clock held, update_feed applied a second time with the same
\* payload leaves the store as the first application left it and sends nothing.
C5_UpdateFeedIdempotent ==
    \A f \in DOMAIN db.feeds : \A fd \in Payloads(ResponsesMany) : \A r \in BOOLEAN :
        LET once == handle_update_feed(db, f, fd, r, now)
            twice == handle_update_feed(once.db, f, fd, r, now)
        IN twice.db = once.db /\ twice.msgs = <<>>

\* C5's case: an update_feed has saved stories and sent messages for them, and
\* the payload it handled would change nothing more.
C5_Witness ==
    /\ out.op = "update_feed"
    /\ out.msgs # <<>>
    /\ \E f \in DOMAIN db.feeds : \E fd \in Payloads(ResponsesMany) :
          /\ fd.storys # <<>>
          /\ handle_update_feed(db, f, fd, FALSE, now).db = db


\* the positions in hist.updates of the update_feed messages applied to a feed
UpdatesOf(feed_id) == {i \in 1..Len(hist.updates) : hist.updates[i].feed_id = feed_id}

\* C6: when the update_feed applied last to a feed came from an earlier fetch
\* than an update_feed applied before it, the persisted Feed fields and story
\* contents are those of the latest fetch, as if the two had been applied in
\* the order of their fetches.
C6_OutOfOrderKeepsLatest ==
    \A f \in DOMAIN db.feeds :
        \A i \in UpdatesOf(f), j \in UpdatesOf(f) :
            LET newest == hist.updates[i]
                last == hist.updates[j]
            IN (/\ i < j
                /\ \A k \in UpdatesOf(f) : k <= j /\ hist.updates[k].fetch_no <= newest.fetch_no
                /\ last.fetch_no < newest.fetch_no
                /\ last.feed # newest.feed)
               => /\ db.feeds[f].title = newest.feed.title
                  /\ db.feeds[f].content_hash_base64 = newest.feed.content_hash_base64
                  /\ \A n \in 1..Len(newest.feed.storys) :
                        \E s \in db.storys :
                            /\ s.feed_id = f
                            /\ s.unique_id = newest.feed.storys[n].unique_id
                            /\ s.content_hash_base64 = newest.feed.storys[n].content_hash_base64

\* C7: of two successive sync_feed of one feed that read the same body, the
\* second one handled after the first one's update_feed was applied, the first
\* sends one update_feed and the second sends none.
C7_UnchangedFeedNoUpdate ==
    \A i \in 1..Len(hist.syncs), j \in 1..Len(hist.syncs) :
        LET first == hist.syncs[i]
            second == hist.syncs[j]
        IN (/\ i < j
            /\ first.feed_id = second.feed_id
            /\ first.answer = second.answer
            /\ first.answer.status_code = 200 /\ ~first.answer.bozo
            /\ \E u \in UpdatesOf(first.feed_id) : hist.updates[u].fetch_no = first.fetch_no
            /\ second.stored = compute_hash_base64(response_content(first.answer.response)))
           => first.emitted = 1 /\ second.emitted = 0

\* C8: after update_story_images no <img> source of the story's persisted
\* content is a url on a referer-deny host or a url listed in images with a
\* denied status, whatever the content and the images list.
C8_NoDeniedImageLeft ==
    (out.op = "update_story_images" /\ ~out.raised) =>
        \A s \in StoryById(db, out.args.story_id) :
            \A i \in DOMAIN s.content.imgs :
                LET x == s.content.imgs[i]
                    images == out.args.images
                IN ~x.proxy =>
                      /\ ~is_referer_deny_url(x)
                      /\ ~\E k \in 1..Len(images) :
                             /\ images[k].url = yarl_str(x)
                             /\ images[k].status \in IMAGE_REFERER_DENY_STATUS

\* the update_story_images messages the ended detect_story_images handler sent
ProbeSent == {i \in 1..Len(out.msgs) : out.msgs[i].name = "harbor_rss.update_story_images"}

\* C9: every handling of detect_story_images sends exactly one
\* update_story_images, whichever probes returned, failed or timed out.
C9_OneMessagePerHandling ==
    (probe.phase = "ended" /\ out.op = "detect_story_images") =>
        ~out.raised /\ Cardinality(ProbeSent) = 1

\* C10: the images list sent has exactly one entry per input url, and a url
\* whose probe timed out is there with a status other than 200.
C10_EntryPerUrl ==
    (probe.phase = "ended" /\ out.op = "detect_story_images") =>
        \E m \in ProbeSent :
            LET images == out.msgs[m].images IN
            /\ Len(images) = Len(probe.image_urls)
            /\ \A i \in DOMAIN probe.image_urls :
                  /\ Cardinality({k \in DOMAIN images : images[k].url = probe.image_urls[i]}) = 1
                  /\ probe.futs[i].state # "done" =>
                        \A k \in DOMAIN images :
                            images[k].url = probe.image_urls[i] => images[k].status # 200

\* what a clean_feed_creation run did to the FeedCreation id that was there
\* before it: retried (set PENDING, find_feed hoped with expire_at one hour
\* ahead) or left untouched
JanitorRetried(id) ==
    /\ id \in DOMAIN db.creations /\ db.creations[id].status = PENDING
    /\ \E k \in DOMAIN out.msgs :
          /\ out.msgs[k].feed_creation_id = id
          /\ out.msgs[k].url = out.args.before[id].url
    /\ \A k \in DOMAIN out.msgs :
          out.msgs[k].name = "worker_rss.find_feed"
          /\ out.msgs[k].expire_at = out.args.t + FIND_EXPIRE
JanitorUntouched(id) ==
    /\ id \in DOMAIN db.creations /\ db.creations[id] = out.args.before[id]
    /\ id \notin RetriedIds(out.msgs)

\* the rule of the janitor, for a measure of how long a FeedCreation is stuck
JanitorRule(stuck(_)) ==
    out.op = "clean_feed_creation" =>
        \A id \in DOMAIN out.args.before :
            LET c == out.args.before[id] IN
            /\ (\/ c.status = UPDATING /\ stuck(id) > UPDATING_SURVIVAL
                \/ c.status = PENDING /\ stuck(id) > PENDING_SURVIVAL) => JanitorRetried(id)
            /\ (\/ c.status = UPDATING /\ stuck(id) <= UPDATING_SURVIVAL
                \/ c.status = PENDING /\ stuck(id) <= PENDING_SURVIVAL) => JanitorUntouched(id)

StuckSinceCreated(id) == out.args.t - out.args.before[id].dt_created
StuckSinceStatus(id) == out.args.t - out.args.since[id]

\* Measured from dt_created the rule holds: a clean_feed_creation run retries
\* every FeedCreation that is UPDATING and was created more than 30 minutes
\* ago, or PENDING and created more than 60 minutes ago, and leaves the
\* younger ones untouched.
JanitorByAge == JanitorRule(StuckSinceCreated)

\* C11: a clean_feed_creation run retries every FeedCreation that has been
\* UPDATING for more than 30 minutes or PENDING for more than 60 minutes
\* (status PENDING, find_feed with expire_at = now + 1h) and leaves untouched
\* every one that has been UPDATING for at most 30 minutes or PENDING for at
\* most 60 minutes.
C11_JanitorByTimeInStatus == JanitorRule(StuckSinceStatus)

\* C12: save_feed_creation_result on a READY FeedCreation changes nothing in
\* the store and sends no update_feed, so the same successful message handled
\* twice leaves the store as handling it once and sends update_feed once.
C12_SaveOnReadyIsNoOp ==
    \A id \in DOMAIN db.creations :
        \A fd \in Payloads(ResponsesMany) \cup {NoFeedDict} : \A t \in now..MaxTime :
            LET once == save_feed_creation_result(db, id, <<"found">>, fd, now)
                twice == save_feed_creation_result(once.db, id, <<"found">>, fd, t)
            IN /\ db.creations[id].status = READY => once.db = db /\ once.msgs = <<>>
               /\ (once.ok /\ once.db.creations[id].status = READY)
                     => /\ twice.db = once.db
                        /\ Len(once.msgs) + Len(twice.msgs)
                              = (IF db.creations[id].status = READY THEN 0 ELSE 1)

\* C12's case: a save_feed_creation_result with a feed was handled for a
\* FeedCreation that was READY already, since it sent nothing.
C12_Witness ==
    /\ out.op = "save_feed_creation_result" /\ ~out.raised
    /\ out.args.found
    /\ out.msgs = <<>>
    /\ out.args.feed_creation_id \in DOMAIN db.creations
    /\ db.creations[out.args.feed_creation_id].status = READY

FinderMessages == {<<>>, <<"m1">>, <<"m1", "m2">>}

\* C14: save_feed_creation_result handled with feed = null for an existing
\* FeedCreation that is not READY leaves it with status ERROR, message the
\* joined messages and feed_id unchanged, records one
\* FeedUrlMap(source = creation.url, target = NOT_FOUND), creates or modifies
\* no Feed and no UserFeed, and emits no update_feed (no message at all).
C14_NotFoundMarksError ==
    \A id \in DOMAIN db.creations : \A ms \in FinderMessages :
        LET fc == db.creations[id]
            res == save_feed_creation_result(db, id, ms, NoFeedDict, now)
            row == [source |-> fc.url, target |-> NOT_FOUND]
        IN fc.status # READY =>
              /\ res.ok
              /\ DOMAIN res.db.creations = DOMAIN db.creations
              /\ res.db.creations[id] =
                    [fc EXCEPT !.status = ERROR, !.message = join_messages(ms),
                               !.dt_updated = now]
              /\ res.db.creations[id].feed_id = fc.feed_id
              /\ \A other \in DOMAIN db.creations \ {id} :
                    res.db.creations[other] = db.creations[other]
              /\ res.maps = <<row>>
              /\ res.db.url_maps = db.url_maps \cup {row}
              /\ res.db.feeds = db.feeds
              /\ res.db.next_feed_id = db.next_feed_id
              /\ res.db.user_feeds = db.user_feeds
              /\ res.db.storys = db.storys
              /\ res.msgs = <<>>

\* a find that found nothing was saved for a FeedCreation, while a Feed and a
\* UserFeed were there
C14_Witness ==
    /\ out.op = "save_feed_creation_result" /\ ~out.raised /\ ~out.args.found
    /\ out.msgs = <<>>
    /\ out.args.feed_creation_id \in DOMAIN db.creations
    /\ db.creations[out.args.feed_creation_id].status = ERROR
    /\ [source |-> db.creations[out.args.feed_creation_id].url, target |-> NOT_FOUND]
          \in db.url_maps
    /\ DOMAIN db.feeds # {} /\ db.user_feeds # {}

\* the ids a late message may name
CreationIdsEver == 1..4
GoneStoryId == <<0, 0>>

\* C15: a harbor handler delivered a message whose entity no longer exists
\* (save_feed_creation_result for a deleted FeedCreation, update_feed for a
\* Feed that was merged away, update_story or update_story_images for a
\* deleted Story) returns normally without raising, persists nothing and
\* emits no message.
C15_GoneEntityIsNoError ==
    LET quiet(r) == r.ok /\ r.db = db /\ r.msgs = <<>> IN
    /\ \A id \in CreationIdsEver \ DOMAIN db.creations :
          \A fd \in Payloads(ResponsesMany) \cup {NoFeedDict} :
              quiet(save_feed_creation_result(db, id, <<"found">>, fd, now))
    /\ \A f \in FeedIdsEver \ DOMAIN db.feeds :
          \A fd \in Payloads(ResponsesMany), r \in BOOLEAN :
              quiet(update_feed(db, f, fd, r, now))
    /\ StoryById(db, GoneStoryId) = {} =>
          /\ \A content \in ImageContents :
                quiet(do_update_story(db, GoneStoryId, content,
                                      shorten(story_html_to_text(content), 300),
                                      "http://a.com/x"))
          /\ \A images \in ImageLists :
                quiet(do_update_story_images(db, GoneStoryId, "http://a.com/x", images))

\* the part of C15 that the handlers keep: whatever entity is gone, nothing
\* is persisted and nothing is emitted; and save_feed_creation_result returns
\* normally
GoneEntityLeavesNoTrace ==
    LET silent(r) == r.db = db /\ r.msgs = <<>> IN
    /\ \A id \in CreationIdsEver \ DOMAIN db.creations :
          \A fd \in Payloads(ResponsesMany) \cup {NoFeedDict} :
              LET r == save_feed_creation_result(db, id, <<"found">>, fd, now)
              IN r.ok /\ silent(r)
    /\ \A f \in FeedIdsEver \ DOMAIN db.feeds :
          \A fd \in Payloads(ResponsesMany), r \in BOOLEAN :
              silent(update_feed(db, f, fd, r, now))
    /\ StoryById(db, GoneStoryId) = {} =>
          /\ \A content \in ImageContents :
                silent(do_update_story(db, GoneStoryId, content, 0, "http://a.com/x"))
          /\ \A images \in ImageLists :
                silent(do_update_story_images(db, GoneStoryId, "http://a.com/x", images))

\* update_feed was delivered for a Feed that a merge had destroyed, and raised
\* (the store is as before it, and in it no update_feed of a live Feed raises)
C15_GoneFeedRaised ==
    /\ out.op = "update_feed" /\ out.raised
    /\ FeedIdsEver \ DOMAIN db.feeds # {}
    /\ \A f \in DOMAIN db.feeds, fd \in Payloads(ResponsesMany), r \in BOOLEAN :
          update_feed(db, f, fd, r, now).ok

\* the Feeds a check_feed at time t with the deadline outdate finds outdated
OutdatedFeeds(d, outdate, t) ==
    {f \in DOMAIN d.feeds :
        d.feeds[f].dt_checked = NoTime \/ t - d.feeds[f].dt_checked > outdate}

\* the sync_feed messages of a check_feed tick at time t: one per outdated
\* Feed, all with expire_at = t + outdate, CHECK_FEED_SECONDS <= outdate <
\* 1.1 * CHECK_FEED_SECONDS
OnePerOutdatedFeed(d, rand_sec, t) ==
    LET msgs == do_check_feed(d, rand_sec, t).msgs
        outdate == CHECK_FEED_SECONDS + rand_sec
    IN /\ CHECK_FEED_SECONDS <= outdate /\ 10 * outdate < 11 * CHECK_FEED_SECONDS
       /\ \A k \in DOMAIN msgs :
             /\ msgs[k].name = "worker_rss.sync_feed"
             /\ msgs[k].expire_at = t + outdate
             /\ msgs[k].feed_id \in OutdatedFeeds(d, outdate, t)
             /\ msgs[k].url = d.feeds[msgs[k].feed_id].url
       /\ \A f \in OutdatedFeeds(d, outdate, t) :
             Cardinality({k \in DOMAIN msgs : msgs[k].feed_id = f}) = 1

\* the part of C16 that check_feed keeps
CheckFeedOnePerOutdatedFeed ==
    \A rand_sec \in RandSecs : OnePerOutdatedFeed(db, rand_sec, now)

\* C16: every sync_feed message of a check_feed tick at time t carries
\* expire_at = t + outdate with CHECK_FEED_SECONDS <= outdate <
\* 1.1 * CHECK_FEED_SECONDS, exactly one is emitted per outdated Feed, and a
\* message of the tick that is still unprocessed has expired when the next
\* tick fires at t + CHECK_FEED_SECONDS.
C16_SyncFeedDropsBeforeNextTick ==
    \A rand_sec \in RandSecs :
        /\ OnePerOutdatedFeed(db, rand_sec, now)
        /\ LET msgs == do_check_feed(db, rand_sec, now).msgs
           IN \A k \in DOMAIN msgs : is_expired(msgs[k], now + CHECK_FEED_SECONDS)

\* a sync_feed message of a check_feed tick is in flight and not expired at
\* its expire_at, no earlier than one period after the tick
C16_AliveAtNextTick ==
    \E f \in Named("worker_rss.sync_feed") :
        /\ now >= f.msg.expire_at
        /\ ~is_expired(f.msg, now)

\* ------------------------------------------- the messages per story
ContentLong == Html(3000, 1500, 0, 0, <<Img("img.org", "/2.png")>>)
EntryNoLink == [id |-> "n", link |-> "", content |-> ContentImg, published |-> 1]
EntryLong == [id |-> "l", link |-> "http://a.com/l", content |-> ContentLong, published |-> 1]
ResponsesEmit ==
    [url : Urls, title : {"t1"},
     entries : {<<EntryX1>>, <<EntryX2>>, <<EntryNoLink, EntryLong>>}]

\* a harbor that handles one message at a time, fed stories with and without
\* a link, short and long, with and without images
NextEmit ==
    \/ \E id \in 1..2, fd \in Payloads(ResponsesEmit) :
          HandleSaveFeedCreationResult(id, <<"found">>, fd) /\ UNCHANGED workerVars
    \/ \E f \in FeedIdsEver, fd \in Payloads(ResponsesEmit), r \in BOOLEAN :
          HandleUpdateFeed(f, fd, r) /\ UNCHANGED workerVars
SpecEmit == Init /\ [][NextEmit]_vars

\* what do_update_feed sent for a story it modified, against what the story
\* and its feed (as saved) call for
StoryMessages(msgs, story) == {k \in DOMAIN msgs : msgs[k].story_id = story.id}
WantsFetch(feed, story) ==
    is_feed_need_fetch_storys(feed) /\ ~is_fulltext_story(feed, story) /\ story.link # ""
WantsImages(feed, story, is_refresh) ==
    /\ ~WantsFetch(feed, story)
    /\ is_refresh \/ story_html_to_text(story.content) < 1000
    /\ Len(parse_images(story.content)) >= 1
EmitRule(res, feed_id, is_refresh, story) ==
    LET feed == res.db.feeds[feed_id]
        sent == StoryMessages(res.msgs, story)
        fetch == {k \in sent : res.msgs[k].name = "worker_rss.fetch_story"}
        detect == {k \in sent : res.msgs[k].name = "worker_rss.detect_story_images"}
    IN /\ fetch # {} <=> WantsFetch(feed, story)
       /\ \A k \in fetch : res.msgs[k].url = story.link
       /\ detect # {} <=> WantsImages(feed, story, is_refresh)
       /\ Cardinality(sent) <= 1

\* the update_feed calls that take the non-merge path and commit, each with
\* the rule applied to the modified stories that satisfy keep
EmitRuleFor(keep(_)) ==
    \A f \in DOMAIN db.feeds : \A fd \in Payloads(ResponsesEmit) : \A r \in BOOLEAN :
        LET c == read_for_update_feed(db, f, fd, r, now)
            res == update_feed(db, f, fd, r, now)
        IN (c.target = NoId /\ res.ok) =>
              /\ Len(res.msgs) <= Len(res.modified)
              /\ \A i \in DOMAIN res.modified :
                    keep(res.modified[i]) => EmitRule(res, f, r, res.modified[i])

HasLink(story) == story.link # ""
AnyStory(story) == TRUE

\* the part of C17 that do_update_feed keeps: the rule for the modified
\* stories that have a link
EmitRuleForLinkedStorys == EmitRuleFor(HasLink)

\* C17: after update_feed commits on the non-merge path, for every modified
\* story fetch_story(story.link, story.id) is emitted iff the feed needs its
\* stories fetched, the story is not full text and it has a link; in every
\* other case, a story without a link included, detect_story_images is
\* emitted exactly when (is_refresh or the text is shorter than 1000) and
\* the content holds an image; no story triggers both.
C17_FetchOrImagesPerStory == EmitRuleFor(AnyStory)

\* update_feed committed and sent nothing although a story it saved has no
\* link, a short text and an image
C17_NoLinkNoImages ==
    /\ out.op = "update_feed" /\ ~out.raised /\ out.msgs = <<>>
    /\ \E s \in db.storys :
          /\ s.link = "" /\ Len(parse_images(s.content)) >= 1
          /\ story_html_to_text(s.content) < 1000
          /\ Cardinality({x \in db.storys : x.feed_id = s.feed_id}) = 2

\* ------------------------------------------- the monthly story counts
ResponsesMonths ==
    [url : Urls, title : {"t1"}, entries : {<<EntryX1>>, <<EntryX2, EntryY>>}]

\* a harbor that handles one message at a time under a running clock: the
\* same story arrives with a date, without one, and in another month
NextMonths ==
    \/ Tick
    \/ \E id \in 1..2, fd \in Payloads(ResponsesFew) :
          HandleSaveFeedCreationResult(id, <<"found">>, fd) /\ UNCHANGED workerVars
    \/ \E f \in FeedIdsEver, fd \in Payloads(ResponsesMonths) :
          HandleUpdateFeed(f, fd, FALSE) /\ UNCHANGED workerVars
SpecMonths == Init /\ [][NextMonths]_vars

StorysOf(f) == {s \in db.storys : s.feed_id = f}
StorysInMonth(f, m) == {s \in StorysOf(f) : id_of_month(s.dt_published) = m}
MonthsOf(f) ==
    DOMAIN db.feeds[f].monthly_story_count
    \cup {id_of_month(s.dt_published) : s \in StorysOf(f)}
CountsExact(f) ==
    \A m \in MonthsOf(f) :
        /\ msc_get(db.feeds[f].monthly_story_count, m) >= 0
        /\ msc_get(db.feeds[f].monthly_story_count, m) = Cardinality(StorysInMonth(f, m))

\* a Feed that holds only the Stories saved to it (none moved in by a merge)
OwnStorysOnly(f) == \A s \in StorysOf(f) : s.id[1] = f

\* the part of C18 that holds: the counts of a Feed that no merge has moved
\* Stories into are exact, whatever update_feed calls saved its Stories
CountsExactWithoutMerge ==
    \A f \in DOMAIN db.feeds : OwnStorysOnly(f) => CountsExact(f)

\* C18: in every reachable state, for every Feed and every year-month m,
\* monthly_story_count[m] is non-negative and equals the number of the
\* Feed's Stories whose dt_published falls in m, after any sequence of
\* update_feed calls.
C18_MonthlyCountsExact == \A f \in DOMAIN db.feeds : CountsExact(f)

\* an update_feed merged a Feed with Stories into another, whose counts no
\* longer match its Stories
C18_MergedCountsOff ==
    /\ out.op = "update_feed" /\ ~out.raised
    /\ \E f \in DOMAIN db.feeds : ~OwnStorysOnly(f) /\ ~CountsExact(f)

\* ------------------------------------------- is_productive_feed applied
\* the months counted and the counts they may hold
CountedMonths == {0, BaseMonth - 17, BaseMonth - 3, BaseMonth}
CountValues == {0, 29, 30, 31, 60}
MonthlyCounts == [CountedMonths -> CountValues]

\* the dates asked about, as clock ticks: in 1969-12, 1970-01, 1970-02,
\* 1970-06, 2020-01, 2020-02, 2021-03, and in 10000-01
DateOfMonth(month_id) == (month_id - BaseMonth) * TicksPerMonth
ProductiveDates ==
    {DateOfMonth(m) : m \in {-1, 0, 1, 5, BaseMonth, BaseMonth + 1, BaseMonth + 14, 96360}}

\* a Feed with any of the monthly counts
InitProductive ==
    /\ \E msc \in MonthlyCounts :
          db = [feeds |-> <<[NewFeedRow("a.com/rss", 1) EXCEPT !.monthly_story_count = msc]>>,
                storys |-> {}, user_feeds |-> {}, creations |-> <<>>,
                url_maps |-> {}, next_feed_id |-> 2]
    /\ now = 1
    /\ txn = [p \in Procs |-> Idle]
    /\ out = Sent("", <<>>)
    /\ queue = {}
    /\ hist = [nfetch |-> 0, found |-> {}, syncs |-> <<>>, updates |-> <<>>,
               since |-> [i \in {1, 2} |-> 1], naps |-> 0]
    /\ probe = NoProbe

\* is_productive_feed(feed.monthly_story_count, date) is called
ApplyIsProductiveFeed(f, date) ==
    /\ out' = [op |-> "is_productive_feed", msgs |-> <<>>, raised |-> FALSE,
               args |-> [monthly_story_count |-> db.feeds[f].monthly_story_count,
                         date |-> date,
                         result |-> is_productive_feed(db.feeds[f].monthly_story_count, date)]]
    /\ UNCHANGED <<db, now, txn, workerVars>>

NextProductive == \E f \in DOMAIN db.feeds, date \in ProductiveDates : ApplyIsProductiveFeed(f, date)
SpecProductive == InitProductive /\ [][NextProductive]_vars

\* the 18 monthly counts ending at a month, oldest first, the month ids below
\* 0 clamped to 0
Last18(msc, month_id) ==
    [i \in 1..18 |-> LET m == month_id - 18 + i
                     IN IF (IF m < 0 THEN 0 ELSE m) \in DOMAIN msc
                        THEN msc[IF m < 0 THEN 0 ELSE m] ELSE 0]
RECURSIVE SumOf(_)
SumOf(q) == IF q = <<>> THEN 0 ELSE Head(q) + SumOf(Tail(q))
YearOfDate(date) == 1970 + ((BaseMonth + (date \div TicksPerMonth)) \div 12)

\* the rule C19 states
ProductiveRule(msc, date) ==
    LET counts == Last18(msc, BaseMonth + (date \div TicksPerMonth))
        nonZero == {i \in 1..18 : counts[i] # 0}
    IN \/ YearOfDate(date) < 1970 \/ YearOfDate(date) > 9999
       \/ \A i \in 1..18 : counts[i] = 0
       \/ \E i \in 16..18 : counts[i] >= 30 /\ \A j \in 16..18 : counts[j] <= counts[i]
       \/ SumOf([i \in 1..18 |-> IF i \in nonZero THEN counts[i] ELSE 0])
             >= 30 * Cardinality(nonZero)

\* C19: is_productive_feed(monthly_story_count, date) is true exactly when
\* date.year is outside [1970, 9999], or the 18 monthly counts ending at the
\* date's month (ids below 0 clamped to 0) are all zero, or the maximum of the
\* last 3 is >= 30, or the sum of the non-zero counts is >= 30 times their
\* number; so it is true for empty counts at any date and for 60 stories in
\* the month of the date.
C19_ProductiveExactly ==
    out.op = "is_productive_feed" =>
        /\ out.args.result = ProductiveRule(out.args.monthly_story_count, out.args.date)
        /\ (\A m \in DOMAIN out.args.monthly_story_count :
                out.args.monthly_story_count[m] = 0) => out.args.result
        /\ msc_get(out.args.monthly_story_count, id_of_month(out.args.date)) = 60
              => out.args.result
        /\ \A date \in ProductiveDates : is_productive_feed([m \in {} |-> 0], date)

\* is_productive_feed answered false for a date in range although counts of
\* 29 and 30 are in its 18 months, neither among the last 3
C19_Witness ==
    /\ out.op = "is_productive_feed" /\ ~out.args.result
    /\ out.args.date = DateOfMonth(BaseMonth + 14)
    /\ out.args.monthly_story_count[BaseMonth - 3] = 29
    /\ out.args.monthly_story_count[BaseMonth] = 30

\* C20: READY is terminal for a FeedCreation: once READY no handler changes
\* its status, under any delivery order of the messages find_feed sent; the
\* update_feed_creation_status(UPDATING) of find_feed, delivered after
\* save_feed_creation_result, moves neither a READY nor an ERROR FeedCreation
\* back to UPDATING.
C20_ReadyIsTerminal ==
    [][\A id \in DOMAIN db.creations \cap DOMAIN db'.creations :
          /\ db.creations[id].status = READY => db'.creations[id].status = READY
          /\ db.creations[id].status = ERROR => db'.creations[id].status # UPDATING]_vars

\* the status message of find_feed was delivered after the result was saved:
\* the FeedCreation is linked to its Feed and UPDATING again
C20_ReadyBackToUpdating ==
    /\ out.op = "update_feed_creation_status"
    /\ \E id \in DOMAIN db.creations :
          /\ db.creations[id].status = UPDATING
          /\ db.creations[id].feed_id \in DOMAIN db.feeds
          /\ [user_id |-> db.creations[id].user_id, feed_id |-> db.creations[id].feed_id]
                \in db.user_feeds

\* ------------------------------------------- process_story_webpage
\* a set as a list, in some order
RECURSIVE SeqOfSet(_)
SeqOfSet(S) ==
    IF S = {} THEN <<>>
    ELSE LET x == CHOOSE y \in S : TRUE IN <<x>> \o SeqOfSet(S \ {x})

\* do_process_story_webpage: update_story with the extracted content, then
\* detect_story_images when the content holds images
do_process_story_webpage(story_id, url, content) ==
    LET summary == shorten(story_html_to_text(content), 300)
        image_urls == {yarl_str(x) : x \in SeqToSet(parse_images(content))}
    IN <<[name |-> "harbor_rss.update_story", story_id |-> story_id,
          content |-> content, summary |-> summary, url |-> url]>>
       \o (IF image_urls # {}
           THEN <<[name |-> "worker_rss.detect_story_images", story_id |-> story_id,
                   story_url |-> url, image_urls |-> SeqOfSet(image_urls)]>>
           ELSE <<>>)

\* a worker handles process_story_webpage for a saved story, once
ProcessStoryWebpage(story_id, url, content) ==
    /\ hist.nfetch = 0
    /\ LET msgs == do_process_story_webpage(story_id, url, content) IN
       /\ queue' = queue \cup FlyingAll(msgs, 1)
       /\ hist' = [hist EXCEPT !.nfetch = 1,
                      !.syncs = Append(@, [story_id |-> story_id, url |-> url,
                                           content |-> content])]
       /\ out' = Sent("process_story_webpage", msgs)
    /\ UNCHANGED <<db, now, txn, probe>>

\* the statuses the probes of a list of urls may end with, none timing out
ProbeOutcomes(image_urls) ==
    {q \in [DOMAIN image_urls -> ProbeStatuses \cup {REFERER_DENY}] :
        \A i \in DOMAIN image_urls :
            q[i] = REFERER_DENY <=> is_referer_deny_url(image_urls[i])}

\* a worker handles detect_story_images with every probe returning
DetectStoryImages(f) ==
    /\ f \in Named("worker_rss.detect_story_images")
    /\ \E statuses \in ProbeOutcomes(f.msg.image_urls) :
          LET p == [phase |-> "gather", story_id |-> f.msg.story_id,
                    story_url |-> f.msg.story_url, image_urls |-> f.msg.image_urls,
                    futs |-> [i \in DOMAIN f.msg.image_urls |-> Done(statuses[i])]]
              r == do_detect_story_images(p)
          IN /\ queue' = (queue \ {f}) \cup FlyingAll(r.msgs, f.fetch_no)
             /\ out' = Sent("detect_story_images", r.msgs)
    /\ UNCHANGED <<db, now, txn, hist, probe>>

DeliverUpdateStory(f) ==
    /\ f \in Named("harbor_rss.update_story")
    /\ \A p \in Procs : txn[p] = Idle
    /\ FinishWith("update_story",
                  do_update_story(db, f.msg.story_id, f.msg.content, f.msg.summary, f.msg.url),
                  [story_id |-> f.msg.story_id])
    /\ queue' = queue \ {f}
    /\ hist' = [hist EXCEPT !.updates = Append(@, f.msg)]
    /\ UNCHANGED <<now, txn, probe>>

DeliverUpdateStoryImages(f) ==
    /\ f \in Named("harbor_rss.update_story_images")
    /\ \A p \in Procs : txn[p] = Idle
    /\ FinishWith("update_story_images",
                  do_update_story_images(db, f.msg.story_id, f.msg.story_url, f.msg.images),
                  [story_id |-> f.msg.story_id])
    /\ queue' = queue \ {f}
    /\ hist' = [hist EXCEPT !.updates = Append(@, f.msg)]
    /\ UNCHANGED <<now, txn, probe>>

\* the url of the story's webpage, as fetched (after redirects)
WebpageUrls == {"http://a.com/x", "http://a.com/x2"}

\* a story is saved from its feed, its webpage is processed once, and the
\* messages of that run are handled in any order
NextWebpage ==
    \/ \E id \in 1..2, fd \in Payloads(ResponsesImages) :
          hist.nfetch = 0 /\ HandleSaveFeedCreationResult(id, <<"found">>, fd)
          /\ UNCHANGED workerVars
    \/ \E f \in FeedIdsEver, fd \in Payloads(ResponsesImages) :
          hist.nfetch = 0 /\ HandleUpdateFeed(f, fd, FALSE) /\ UNCHANGED workerVars
    \/ \E s \in db.storys, url \in WebpageUrls, content \in ImageContents :
          ProcessStoryWebpage(s.id, url, content)
    \/ \E f \in queue : DetectStoryImages(f)
    \/ \E f \in queue : DeliverUpdateStory(f)
    \/ \E f \in queue : DeliverUpdateStoryImages(f)
SpecWebpage == Init /\ [][NextWebpage]_vars

\* the messages of the run that the harbor has handled, in order
HandledNamed(name) == {k \in DOMAIN hist.updates : hist.updates[k].name = name}
BothHandled ==
    /\ HandledNamed("harbor_rss.update_story") # {}
    /\ HandledNamed("harbor_rss.update_story_images") # {}

\* the content of the run with every image reported denied replaced by its
\* proxied url
RewrittenContent ==
    LET run == hist.syncs[1]
        k == CHOOSE i \in HandledNamed("harbor_rss.update_story_images") : TRUE
    IN process_images(run.content, image_replaces(hist.updates[k].images, run.url))
RunStoryRewritten ==
    \A s \in StoryById(db, hist.syncs[1].story_id) : s.content = RewrittenContent

\* the part of C21 that holds: update_story handled first, then
\* update_story_images
InOrderRewritten ==
    (BothHandled /\ hist.updates[1].name = "harbor_rss.update_story") => RunStoryRewritten

\* C21: for one process_story_webpage run that sends update_story(content C)
\* and detect_story_images, once update_story and the resulting
\* update_story_images are both handled, in either order, the story's content
\* is C with every image reported with a denied status replaced by its
\* proxied url.
C21_EitherOrderRewritten == BothHandled => RunStoryRewritten

\* update_story_images was handled first and update_story second, and the
\* story holds an image that was reported denied, not proxied
C21_DeniedLeftAfterReorder ==
    /\ BothHandled /\ hist.updates[1].name = "harbor_rss.update_story_images"
    /\ \E s \in StoryById(db, hist.syncs[1].story_id) :
          \E i \in DOMAIN s.content.imgs :
              /\ ~s.content.imgs[i].proxy
              /\ yarl_str(s.content.imgs[i])
                    \in DOMAIN image_replaces(hist.updates[1].images, hist.syncs[1].url)

\* C22: a single clean_feed_creation run emits at most one find_feed message
\* per FeedCreation (one retried as stuck UPDATING is not selected again by
\* the stuck-PENDING pass of the same run), and the returned
\* num_retry_updating + num_retry_pending is the number of distinct
\* FeedCreations retried.
C22_OneFindFeedPerCreation ==
    LET r == do_clean_feed_creation(db, now) IN
    /\ \A id \in DOMAIN db.creations :
          Cardinality({k \in DOMAIN r.msgs : r.msgs[k].feed_creation_id = id}) <= 1
    /\ r.num_retry_updating + r.num_retry_pending = Cardinality(RetriedIds(r.msgs))

\* a clean_feed_creation run hoped two find_feed messages for one
\* FeedCreation, which was UPDATING before the run
C22_RetriedTwice ==
    /\ out.op = "clean_feed_creation"
    /\ \E k, j \in DOMAIN out.msgs :
          /\ k < j
          /\ out.msgs[k].feed_creation_id = out.msgs[j].feed_creation_id
          /\ out.args.before[out.msgs[k].feed_creation_id].status = UPDATING
====
